---- MODULE Spec2Model ----
(***************************************************************************)
(* A model of yt-cast: the TTL filesystem cache (src/src/cache.rs), the    *)
(* media orchestration and feed assembly (src/src/podcast_proxy.rs).       *)
(*                                                                         *)
(* Strings are sequences of one-character strings, so that encoding and    *)
(* extension handling are computed character by character.  A path is the  *)
(* sequence of its components below the cache root; the root is <<>>.      *)
(* Time is counted in whole seconds, as Duration::as_secs does.            *)
(***************************************************************************)
EXTENDS Integers, Sequences, FiniteSets, TLC

VARIABLES
    fs,      \* the cache tree: path -> [kind, mtime, data]
    now,     \* the clock, in seconds
    ticks,   \* how many times the clock was advanced
    last,    \* what the last operation returned
    input,   \* the arguments of a call under study
    output,  \* what that call returned
    procs    \* the concurrent requests: each one's position and locals

vars == <<fs, now, ticks, last, input, output, procs>>

------------------------------------------------------------------------------
(* Bounds of the model *)

MaxTicks == 2
MaxSegLen == 2
MaxVideos == 3
MaxDay == 4
MaxDelay == 2
MaxThumbs == 2
MaxDim == 4
NumProcs == 2

------------------------------------------------------------------------------
(* Strings *)

SegMedia == <<"m", "e", "d", "i", "a">>
SegPlaylist == <<"p", "l">>
ExtMp4 == <<"m", "p", "4">>
NoExt == <<"-none-">>

\* urlencoding::encode leaves A-Z a-z 0-9 - _ . ~ alone
Reserved == {"%", "+", "/", " "}

\* the two upper-case hex digits of a reserved character's byte
Hex(c) ==
    CASE c = "%" -> <<"2", "5">>
      [] c = "+" -> <<"2", "B">>
      [] c = "/" -> <<"2", "F">>
      [] c = " " -> <<"2", "0">>

RECURSIVE encode(_)
encode(s) ==
    IF s = <<>> THEN <<>>
    ELSE (IF s[1] \in Reserved THEN <<"%">> \o Hex(s[1]) ELSE <<s[1]>>)
         \o encode(Tail(s))

\* str::replace with one-character pattern and replacement
replace(s, from, to) == [i \in 1..Len(s) |-> IF s[i] = from THEN to ELSE s[i]]

\* encode(k).replace("%", "+")
EncSeg(k) == replace(encode(k), "%", "+")

\* the largest index of a "." in name, 0 when there is none
LastDot(name) ==
    LET dots == {i \in 1..Len(name) : name[i] = "."}
    IN  IF dots = {} THEN 0 ELSE CHOOSE i \in dots : \A j \in dots : j <= i

\* Path::file_stem: the name up to its last ".", the whole name when it has no
\* "." or only a leading one
FileStem(name) ==
    IF LastDot(name) <= 1 THEN name ELSE SubSeq(name, 1, LastDot(name) - 1)

\* PathBuf::set_extension on a path whose last component is a normal name
SetExtension(p, ext) ==
    [p EXCEPT ![Len(p)] = FileStem(p[Len(p)]) \o <<".">> \o ext]

\* the directories get_path creates: one per leading key element
RECURSIVE DirsOf(_)
DirsOf(elements) ==
    IF elements = <<>> THEN <<>>
    ELSE Append(DirsOf(SubSeq(elements, 1, Len(elements) - 1)),
                EncSeg(elements[Len(elements)]))

\* the path get_path returns for a non-empty key
PathOf(key, ext) ==
    LET p == Append(DirsOf(SubSeq(key, 1, Len(key) - 1)), EncSeg(key[Len(key)]))
    IN  IF ext # NoExt THEN SetExtension(p, ext) ELSE p

------------------------------------------------------------------------------
(* The filesystem *)

cache_time == 86400

Root == <<>>

Dir == [kind |-> "dir", mtime |-> 0, data |-> <<>>]
File(t, data) == [kind |-> "file", mtime |-> t, data |-> data]

Exists(f, p) == p \in DOMAIN f
IsDir(f, p) == Exists(f, p) /\ f[p].kind = "dir"
IsFile(f, p) == Exists(f, p) /\ f[p].kind = "file"

Parent(p) == SubSeq(p, 1, Len(p) - 1)
Prefixes(p) == {SubSeq(p, 1, n) : n \in 0..Len(p)}

\* the entries read_dir yields for dir
Children(f, dir) == {p \in DOMAIN f : p # Root /\ Parent(p) = dir}

Without(f, ps) == [p \in (DOMAIN f) \ ps |-> f[p]]
With(f, p, node) == [q \in (DOMAIN f) \cup {p} |-> IF q = p THEN node ELSE f[q]]

\* create_dir_all: fails when a component of p is a file, else creates every
\* missing component (the root included)
CreateDirAll(f, p) ==
    IF \E q \in Prefixes(p) : IsFile(f, q)
    THEN [ok |-> FALSE, fs |-> f]
    ELSE [ok |-> TRUE,
          fs |-> [q \in (DOMAIN f) \cup Prefixes(p) |->
                     IF q \in DOMAIN f THEN f[q] ELSE Dir]]

TouchTruncating(f, p, t) ==
    IF IsDir(f, p) \/ ~IsDir(f, Parent(p)) THEN [ok |-> FALSE, fs |-> f]
    ELSE [ok |-> TRUE, fs |-> With(f, p, File(t, <<>>))]

TouchRefreshing(f, p, t) ==
    IF IsFile(f, p) THEN [ok |-> TRUE, fs |-> With(f, p, [f[p] EXCEPT !.mtime = t])]
    ELSE IF IsDir(f, p) THEN [ok |-> FALSE, fs |-> f]
    ELSE IF IsDir(f, Parent(p)) THEN [ok |-> TRUE, fs |-> With(f, p, File(t, <<>>))]
    ELSE [ok |-> FALSE, fs |-> f]

\* OpenOptions::new().append(true).open(p), and File::create(p) when that
\* reports NotFound.  Opening an existing file for append writes nothing and
\* leaves its modification time as it was.
Touch(f, p, t) ==
    IF IsFile(f, p) THEN [ok |-> TRUE, fs |-> f]
    ELSE IF IsDir(f, p) THEN [ok |-> FALSE, fs |-> f]
    ELSE IF IsDir(f, Parent(p)) THEN [ok |-> TRUE, fs |-> With(f, p, File(t, <<>>))]
    ELSE [ok |-> FALSE, fs |-> f]

ExpiredAtTtl(node, t) == t >= node.mtime /\ t - node.mtime >= cache_time

\* modified.elapsed() is Ok and its whole seconds exceed cache_time
Expired(node, t) == t >= node.mtime /\ t - node.mtime > cache_time

\* the value of a step of a computation, computed once: S is the set of that
\* one value
The(S) == CHOOSE x \in S : TRUE

RECURSIVE SetToSeq(_)
SetToSeq(S) ==
    IF S = {} THEN <<>>
    ELSE LET x == CHOOSE y \in S : TRUE IN <<x>> \o SetToSeq(S \ {x})

\* one turn of the outer loop of Cache::clean: the directory on top of the
\* stack dirs is read, its expired files are removed (a refusal is logged and
\* ignored), and it is removed itself when read_dir yielded nothing.  failing
\* is the paths whose removal the operating system refuses.
CleanDir(f, dirs, t, failing) ==
    LET dir == dirs[Len(dirs)]
        rest == SubSeq(dirs, 1, Len(dirs) - 1)
    IN  IF ~IsDir(f, dir)
        THEN [ok |-> FALSE, fs |-> f, dirs |-> rest, delfail |-> FALSE, removed |-> {}]
        ELSE
          LET entries == Children(f, dir)
              subdirs == {e \in entries : f[e].kind = "dir"}
              expired == {e \in entries : f[e].kind = "file" /\ Expired(f[e], t)}
              gone == expired \ failing
              f1 == Without(f, gone)
              df1 == expired \cap failing # {}
              stack == rest \o SetToSeq(subdirs)
          IN  IF entries # {}
              THEN [ok |-> TRUE, fs |-> f1, dirs |-> stack, delfail |-> df1,
                    removed |-> gone]
              ELSE IF dir \in failing
              THEN [ok |-> FALSE, fs |-> f1, dirs |-> stack, delfail |-> TRUE,
                    removed |-> gone]
              ELSE [ok |-> TRUE, fs |-> Without(f1, {dir}), dirs |-> stack,
                    delfail |-> df1, removed |-> gone \cup {dir}]

\* Cache::clean's loop: delfail is whether a removal has failed so far,
\* removed the paths removed so far, s the outcome of the turn just taken
RECURSIVE CleanLoop(_, _, _, _, _, _)
CleanTurn(s, t, failing, delfail, removed) ==
    IF s.ok
    THEN CleanLoop(s.fs, s.dirs, t, failing, delfail \/ s.delfail,
                   removed \cup s.removed)
    ELSE [ok |-> FALSE, fs |-> s.fs, delfail |-> delfail \/ s.delfail,
          removed |-> removed \cup s.removed]

CleanLoop(f, dirs, t, failing, delfail, removed) ==
    IF dirs = <<>>
    THEN [ok |-> TRUE, fs |-> f, delfail |-> delfail, removed |-> removed]
    ELSE The({CleanTurn(s, t, failing, delfail, removed) :
                 s \in {CleanDir(f, dirs, t, failing)}})

\* Cache::clean
CleanRes(f, t, failing) == CleanLoop(f, <<Root>>, t, failing, FALSE, {})

\* the create_dir_all loop of get_path over the leading key elements
RECURSIVE MkDirs(_, _, _)
MkDirs(f, p, elements) ==
    IF elements = <<>> THEN [ok |-> TRUE, fs |-> f]
    ELSE LET q == Append(p, EncSeg(elements[1]))
             r == CreateDirAll(f, q)
         IN  IF r.ok THEN MkDirs(r.fs, q, Tail(elements)) ELSE r

GetPathSweepsFirst(f, t, key, ext, failing) ==
    [ok |-> FALSE, err |-> "empty key", path |-> Root,
     fs |-> CleanRes(f, t, failing).fs, delfail |-> FALSE, removed |-> {}]

\* get_path failing at path p before its sweep
GetPathErr(p, f) ==
    [ok |-> FALSE, err |-> "io", path |-> p, fs |-> f, delfail |-> FALSE,
     removed |-> {}]

\* get_path after its sweep returned c
GetPathSwept(p, c) ==
    [ok |-> c.ok, err |-> IF c.ok THEN "" ELSE "io", path |-> p, fs |-> c.fs,
     delfail |-> c.delfail, removed |-> c.removed]

\* get_path after its touch returned o
GetPathTouched(p, o, t, failing) ==
    IF ~o.ok THEN GetPathErr(p, o.fs)
    ELSE The({GetPathSwept(p, c) : c \in {CleanRes(o.fs, t, failing)}})

\* get_path after its create_dir_all loop returned d
GetPathMade(p, d, t, failing) ==
    IF ~d.ok THEN GetPathErr(p, d.fs)
    ELSE The({GetPathTouched(p, o, t, failing) : o \in {Touch(d.fs, p, t)}})

\* Cache::get_path
GetPathRes(f, t, key, ext, failing) ==
    IF key = <<>>
    THEN [ok |-> FALSE, err |-> "empty key", path |-> Root, fs |-> f,
          delfail |-> FALSE, removed |-> {}]
    ELSE The({GetPathMade(p, d, t, failing) :
                 p \in {PathOf(key, ext)},
                 d \in {MkDirs(f, Root, SubSeq(key, 1, Len(key) - 1))}})

------------------------------------------------------------------------------
(* The sequential system: one request at a time *)

VideoIds == {<<"v">>}

MediaKey(id) == <<SegMedia, id>>

\* the keys and extensions the callers of the cache use
KeyExts ==
    {<<<<>>, NoExt>>, <<<<<<"x">>>>, NoExt>>, <<<<<<"d">>, <<"e">>, <<"f">>>>, NoExt>>}
    \cup {<<MediaKey(id), ExtMp4>> : id \in VideoIds}

\* the removals the operating system may refuse during one operation at time
\* t: none, or those of one path.  Only a removal that can be attempted is
\* listed: of an expired file, of an empty directory, of the operation's path p
FaultSets(f, t, p) ==
    {{}} \cup {{q} : q \in {p} \cup
                     {x \in DOMAIN f : \/ IsDir(f, x) /\ Children(f, x) = {}
                                       \/ IsFile(f, x) /\ Expired(f[x], t)}}

\* the strings the callers look for in yt-dlp's stderr
Markers == {"HTTPError 404", "Video unavailable"}

\* what running yt-dlp can do: exit 0, exit non-zero with a stderr that
\* contains some of the markers, fail to start because there is no binary
\* (ErrorKind::NotFound), or fail to start for another reason
Outcomes ==
    {[status |-> "ok", stderr |-> {}], [status |-> "nobinary", stderr |-> {}],
     [status |-> "noexec", stderr |-> {}]}
    \cup {[status |-> "fail", stderr |-> m] : m \in SUBSET Markers}

\* YtDl::run
RunRes(outcome) ==
    CASE outcome.status = "nobinary" -> [ok |-> FALSE, err |-> "YtDlpNotFound", stderr |-> {}]
      [] outcome.status = "noexec" -> [ok |-> FALSE, err |-> "Other", stderr |-> {}]
      [] outcome.status = "fail" ->
            [ok |-> FALSE, err |-> "YtDlpOutputError", stderr |-> outcome.stderr]
      [] OTHER -> [ok |-> TRUE, err |-> "", stderr |-> {}]

MapNotFoundAnyFailure(r, not_found_str) ==
    IF r.ok THEN r ELSE [r EXCEPT !.err = "ItemNotFound"]

\* YtDl::map_not_found
MapNotFound(r, not_found_str) ==
    IF r.err = "YtDlpOutputError" /\ not_found_str \in r.stderr
    THEN [r EXCEPT !.err = "ItemNotFound"]
    ELSE r

PodcastErrNeverNotFound(err) == "YoutubeError"

\* the map_err of get_feed and get_video: YtDlError to PodcastError
PodcastErr(err) == IF err = "ItemNotFound" THEN "NotFound" ELSE "YoutubeError"

NoNode == [kind |-> "none", mtime |-> 0, data |-> <<>>]
NodeAt(f, p) == IF Exists(f, p) THEN f[p] ELSE NoNode

\* what an operation returned, with what it found at its path before it ran
\* (pre), the paths its sweep removed, and the tool invocations it made
Result(op, key, ext, r, calls, pre) ==
    [op |-> op, key |-> key, ext |-> ext, ok |-> r.ok, err |-> r.err,
     path |-> r.path, calls |-> calls, delfail |-> r.delfail,
     removed |-> r.removed, pre |-> pre]

NoResult ==
    [op |-> "init", key |-> <<>>, ext |-> NoExt, ok |-> TRUE, err |-> "",
     path |-> Root, calls |-> 0, delfail |-> FALSE, removed |-> {}, pre |-> NoNode]

aux == <<input, output, procs>>

Init ==
    /\ fs = (Root :> Dir)
    /\ now = 0
    /\ ticks = 0
    /\ last = NoResult
    /\ input = <<>>
    /\ output = <<>>
    /\ procs = <<>>

Tick(d) ==
    /\ ticks < MaxTicks
    /\ ticks' = ticks + 1
    /\ now' = now + d
    /\ UNCHANGED <<fs, last, aux>>

GetPath(key, ext, failing) ==
    \E r \in {GetPathRes(fs, now, key, ext, failing)} :
        /\ fs' = r.fs
        /\ last' = Result("get_path", key, ext, r, 0, NodeAt(fs, r.path))
        /\ UNCHANGED <<now, ticks, aux>>

Clean(failing) ==
    \E c \in {CleanRes(fs, now, failing)} :
        /\ fs' = c.fs
        /\ last' = [NoResult EXCEPT !.op = "clean", !.ok = c.ok,
                       !.err = IF c.ok THEN "" ELSE "io",
                       !.delfail = c.delfail, !.removed = c.removed]
        /\ UNCHANGED <<now, ticks, aux>>

\* YtDl::download_video: a run that exits 0 has written the video to p
DownloadRes(f, t, p, outcome) ==
    LET r == MapNotFound(RunRes(outcome), "Video unavailable")
    IN  [ok |-> r.ok, err |-> r.err,
         fs |-> IF r.ok THEN With(f, p, File(t, <<"video">>)) ELSE f]

ZeroLengthNever(f, p) == FALSE

\* out_path.exists() && metadata(out_path).len() == 0
ZeroLength(f, p) == IsFile(f, p) /\ Len(f[p].data) = 0

\* get_video after download_video returned d
VideoDownloaded(g, d) ==
    [g EXCEPT !.ok = d.ok, !.err = IF d.ok THEN "" ELSE PodcastErr(d.err),
              !.fs = d.fs] @@ [calls |-> 1]

\* get_video at its test !out_path.exists(), the cache being f1
VideoChecked(g, f1, t, outcome) ==
    IF ~Exists(f1, g.path)
    THEN The({VideoDownloaded(g, d) : d \in {DownloadRes(f1, t, g.path, outcome)}})
    ELSE [g EXCEPT !.fs = f1] @@ [calls |-> 0]

\* get_video after get_path returned g
VideoAtPath(g, t, outcome, failing) ==
    IF ~g.ok THEN [g EXCEPT !.err = "Other"] @@ [calls |-> 0]
    ELSE IF ~ZeroLength(g.fs, g.path) THEN VideoChecked(g, g.fs, t, outcome)
    ELSE IF g.path \in failing
    THEN [g EXCEPT !.ok = FALSE, !.err = "IoError", !.delfail = TRUE]
         @@ [calls |-> 0]
    ELSE VideoChecked(g, Without(g.fs, {g.path}), t, outcome)

\* PodcastProxy::get_video
GetVideoRes(f, t, id, outcome, failing) ==
    The({VideoAtPath(g, t, outcome, failing) :
            g \in {GetPathRes(f, t, MediaKey(id), ExtMp4, failing)}})

GetVideo(id, outcome, failing) ==
    \E r \in {GetVideoRes(fs, now, id, outcome, failing)} :
        /\ fs' = r.fs
        /\ last' = Result("get_video", MediaKey(id), ExtMp4, r, r.calls,
                          NodeAt(fs, r.path))
        /\ UNCHANGED <<now, ticks, aux>>

Next ==
    \/ \E d \in {1, cache_time} : Tick(d)
    \/ \E ke \in KeyExts :
          \E failing \in FaultSets(fs, now, IF ke[1] = <<>> THEN Root
                                              ELSE PathOf(ke[1], ke[2])) :
              GetPath(ke[1], ke[2], failing)
    \/ \E failing \in FaultSets(fs, now, Root) : Clean(failing)
    \/ \E id \in VideoIds, outcome \in Outcomes :
          \E failing \in FaultSets(fs, now, PathOf(MediaKey(id), ExtMp4)) :
              GetVideo(id, outcome, failing)

Spec == Init /\ [][Next]_vars

------------------------------------------------------------------------------
(* Claims about the sequential system *)

IsStep(op) == last'.op = op /\ now' = now

\* the file at p is older than the TTL at time t
Older(f, p, t) == IsFile(f, p) /\ t - f[p].mtime > cache_time

FreshFile(f, p, t) == IsFile(f, p) /\ ~Older(f, p, t)

EmptyFile(f, p) == IsFile(f, p) /\ Len(f[p].data) = 0

\* the paths of the files the callers' keys name
FilePaths == {PathOf(ke[1], ke[2]) : ke \in {x \in KeyExts : x[1] # <<>>}}

\* C1: every successful get_path with a non-empty key returns a path whose
\* file exists and whose parent directory exists when it returns, and the path
\* is the one its key and extension determine, whatever time has passed
\* between the calls.
C1_GetPathReturnsExistingFile ==
    (last.op = "get_path" /\ last.ok) =>
        /\ IsFile(fs, last.path)
        /\ IsDir(fs, Parent(last.path))
        /\ last.path = PathOf(last.key, last.ext)

\* C2: after a clean() that completed with every removal succeeding, no
\* directory below the cache root has zero entries.
C2_NoEmptyDirectoryAfterClean ==
    (last.op = "clean" /\ last.ok /\ ~last.delfail) =>
        \A p \in DOMAIN fs : (p # Root /\ IsDir(fs, p)) => Children(fs, p) # {}

CleanKeepsTheRest ==
    /\ \A p \in DOMAIN fs' : ~Older(fs', p, now)
    /\ \A p \in DOMAIN fs :
          FreshFile(fs, p, now) => (Exists(fs', p) /\ fs'[p] = fs[p])
    /\ \A p \in DOMAIN fs :
          (IsDir(fs, p) /\ \E c \in Children(fs, p) : Exists(fs', c))
              => (Exists(fs', p) /\ fs'[p] = fs[p])
    /\ \A p \in DOMAIN fs' : Exists(fs, p) /\ fs'[p] = fs[p]

\* C3: a clean() that completes with every removal succeeding leaves no file
\* older than the TTL, and leaves in place and unchanged every file that is
\* not older than the TTL and every directory that still has an entry.
C3_CleanRemovesExactlyExpired ==
    [][(IsStep("clean") /\ last'.ok /\ ~last'.delfail) => CleanKeepsTheRest]_vars

\* a clean() removed an expired file and kept a file that was not expired
C3_Witness ==
    /\ last.op = "clean" /\ last.ok /\ ~last.delfail
    /\ \E p \in last.removed \cap FilePaths : ~Exists(fs, p)
    /\ \E p \in DOMAIN fs : FreshFile(fs, p, now)

\* a downloaded file that is not older than the TTL stays as it is
DownloadKept(p) ==
    (FreshFile(fs, p, now') /\ Len(fs[p].data) > 0) => (Exists(fs', p) /\ fs'[p] = fs[p])

ColdThenCached(p) ==
    /\ ~Exists(fs, p) =>
          (/\ last'.calls = 1
           /\ (last'.ok => (IsFile(fs', p) /\ Len(fs'[p].data) > 0)))
    /\ (FreshFile(fs, p, now) /\ Len(fs[p].data) > 0) =>
          (/\ last'.calls = 0
           /\ last'.ok
           /\ last'.path = p)

\* C5: get_video on an id with no file invokes the downloader exactly once,
\* and when the download wrote the file, every get_video for that id while the
\* file is not older than the TTL invokes it zero times and returns the same
\* path; no operation removes or changes the file in that time.
C5_DownloadOnceThenCached ==
    [][/\ \A id \in VideoIds : DownloadKept(PathOf(MediaKey(id), ExtMp4))
       /\ (IsStep("get_video") /\ ~last'.delfail)
             => ColdThenCached(PathOf(last'.key, ExtMp4))]_vars

\* a get_video found the file an earlier download wrote and returned it
\* without a download, after time has passed
C5_Witness ==
    /\ last.op = "get_video" /\ last.ok /\ last.calls = 0
    /\ last.pre.kind = "file" /\ Len(last.pre.data) > 0
    /\ now > last.pre.mtime
    /\ IsFile(fs, last.path)

ZeroLengthReplaced(p) ==
    /\ (EmptyFile(fs, p) /\ ~last'.delfail) =>
          (/\ last'.calls = 1
           /\ ~EmptyFile(fs', p)
           /\ (Exists(fs', p) => fs'[p].mtime = now))
    /\ last'.ok => (last'.path = p /\ IsFile(fs', p) /\ Len(fs'[p].data) > 0)

\* C6: a get_video that finds a zero-length file at the media path deletes it
\* and invokes the downloader, and no get_video returns success with a path
\* whose file is zero-length.
C6_ZeroLengthRefetched ==
    [][IsStep("get_video") => ZeroLengthReplaced(PathOf(last'.key, ExtMp4))]_vars

\* a get_video found a zero-length file left by an earlier request that was
\* not older than the TTL, and returned a downloaded file in its place
C6_Witness ==
    /\ last.op = "get_video" /\ last.ok /\ last.calls = 1
    /\ last.pre.kind = "file" /\ Len(last.pre.data) = 0
    /\ now > last.pre.mtime /\ now - last.pre.mtime <= cache_time
    /\ IsFile(fs, last.path) /\ Len(fs[last.path].data) > 0

------------------------------------------------------------------------------
(* The path of a key: get_path on a new cache, for two keys in turn *)

Chars == {"a", ".", "%"}

\* the key elements tried: the strings of 1..MaxSegLen characters, but for "."
\* and "..", which name no file
Segs ==
    (UNION {[1..n -> Chars] : n \in 1..MaxSegLen}) \ {<<".">>, <<".", ".">>}

PathKeys == {<<s>> : s \in Segs} \cup {MediaKey(s) : s \in Segs}

InitPath ==
    /\ fs = (Root :> Dir)
    /\ now = 0
    /\ ticks = 0
    /\ last = NoResult
    /\ input \in [key : PathKeys, other : PathKeys, ext : {NoExt, ExtMp4}]
    /\ output = <<>>
    /\ procs = <<>>

\* get_path(key, ext), then get_path(other, ext)
GetPathTwice ==
    /\ output = <<>>
    /\ \E r1 \in {GetPathRes(fs, now, input.key, input.ext, {})} :
       \E r2 \in {GetPathRes(r1.fs, now, input.other, input.ext, {})} :
          /\ fs' = r2.fs
          /\ output' = [ok |-> r1.ok /\ r2.ok, path |-> r1.path, other |-> r2.path]
          /\ last' = Result("get_path", input.other, input.ext, r2, 0,
                            NodeAt(r1.fs, r2.path))
    /\ UNCHANGED <<now, ticks, input, procs>>

NextPath == GetPathTwice

SpecPath == InitPath /\ [][NextPath]_vars

\* <enc(seg1)>/.../<enc(leaf)>, with "." and ext after the whole encoded leaf
Layout(key, ext) ==
    [i \in 1..Len(key) |->
        IF i = Len(key) /\ ext # NoExt
        THEN EncSeg(key[i]) \o <<".">> \o ext
        ELSE EncSeg(key[i])]

\* C7: get_path returns the root joined with the encoded key elements, the
\* extension appended to the whole encoded last element, so that two distinct
\* keys get two distinct paths.
C7_PathIsEncodedKeyPlusExt ==
    (output # <<>> /\ output.ok) =>
        /\ output.path = Layout(input.key, input.ext)
        /\ (input.key # input.other) => (output.path # output.other)

------------------------------------------------------------------------------
(* The feed: get_channel_info, get_channel_videos and get_feed *)

SecondsPerDay == 86400

\* a u32 is written as its two 16-bit halves, <<high, low>>
U16 == 65536
ToU32(n) == <<n \div U16, n % U16>>
U32Max == <<U16 - 1, U16 - 1>>
Lt32(a, b) == a[1] < b[1] \/ (a[1] = b[1] /\ a[2] < b[2])

\* a - b modulo 2^32
WrappingSub(a, b) ==
    LET low == a[2] - b[2]
        borrow == IF low < 0 THEN 1 ELSE 0
    IN  <<(a[1] - b[1] - borrow) % U16, low % U16>>

\* an upload_date that does not parse as %Y%m%d; one that parses is written as
\* the number of its day
BadDate == -1

\* a line of the listing that is not the JSON of a Video
Garbage == [id |-> 0, upload_date |-> BadDate, json |-> FALSE]
Video(id, day) == [id |-> id, upload_date |-> day, json |-> TRUE]

\* an absent width or height
None == -1
IsSome(x) == x # None

\* YtDl::run_get_channel_info
RunGetChannelInfo(outcome) == MapNotFound(RunRes(outcome), "HTTPError 404")

GetChannelInfoRetriesAlways(o1, o2, info) ==
    LET r1 == RunGetChannelInfo(o1)
        r == IF r1.ok THEN r1 ELSE RunGetChannelInfo(o2)
        calls == IF r1.ok THEN 1 ELSE 2
    IN  IF ~r.ok THEN [ok |-> FALSE, err |-> r.err, calls |-> calls, channel |-> info]
        ELSE IF ~info.json
        THEN [ok |-> FALSE, err |-> "Other", calls |-> calls, channel |-> info]
        ELSE [ok |-> TRUE, err |-> "", calls |-> calls,
              channel |-> [info EXCEPT !.videos_url = IF r1.ok THEN "c" ELSE "user"]]

\* YtDl::get_channel_info: o1 and o2 are what the first and the second run
\* do, info the channel the JSON of a successful run describes (info.json is
\* FALSE when the output does not parse)
GetChannelInfoRes(o1, o2, info) ==
    LET r1 == RunGetChannelInfo(o1)
        second == ~r1.ok /\ r1.err = "ItemNotFound"
        r == IF second THEN RunGetChannelInfo(o2) ELSE r1
        calls == IF second THEN 2 ELSE 1
    IN  IF ~r.ok THEN [ok |-> FALSE, err |-> r.err, calls |-> calls, channel |-> info]
        ELSE IF ~info.json
        THEN [ok |-> FALSE, err |-> "Other", calls |-> calls, channel |-> info]
        ELSE [ok |-> TRUE, err |-> "", calls |-> calls,
              channel |-> [info EXCEPT !.videos_url = IF second THEN "user" ELSE "c"]]

\* get_channel_videos after its get_path returned g: the cached listing is
\* parsed, or, when the cache file is empty, the listing of the run r is
\* written to the file and parsed
ReadOrFetch(g, t, r, listing) ==
    LET p == g.path
        cached == g.fs[p].data
        cold == cached = <<>>
        out == IF cold THEN listing ELSE cached
        f1 == IF cold THEN With(g.fs, p, File(t, listing)) ELSE g.fs
        calls == IF cold THEN 1 ELSE 0
    IN  IF ~g.ok \/ ~IsFile(g.fs, p)
        THEN [ok |-> FALSE, err |-> "Other", fs |-> g.fs, calls |-> 0, vids |-> <<>>]
        ELSE IF cold /\ ~r.ok
        THEN [ok |-> FALSE, err |-> r.err, fs |-> g.fs, calls |-> 1, vids |-> <<>>]
        ELSE IF \E i \in 1..Len(out) : ~out[i].json
        THEN [ok |-> FALSE, err |-> "Other", fs |-> f1, calls |-> calls, vids |-> <<>>]
        ELSE [ok |-> TRUE, err |-> "", fs |-> f1, calls |-> calls, vids |-> out]

\* YtDl::get_channel_videos: outcome is what the listing run does, listing the
\* lines it prints
GetChannelVideosRes(f, t, channel, outcome, listing, failing) ==
    ReadOrFetch(GetPathRes(f, t, <<SegPlaylist, channel.channel>>, NoExt, failing),
                t, RunRes(outcome), listing)

TooRecentOrEqual(t, date, delay_days) == t - date <= delay_days * SecondsPerDay

\* (Utc::now() - date) < Duration::days(delay_days)
TooRecent(t, date, delay_days) == t - date < delay_days * SecondsPerDay

\* the loop of get_feed over the videos: oldest is oldest_date, items rss_items
RECURSIVE FeedLoop(_, _, _, _, _)
FeedLoop(vids, t, delay_days, oldest, items) ==
    IF vids = <<>> THEN [ok |-> TRUE, oldest |-> oldest, items |-> items]
    ELSE
      LET vid == Head(vids)
          date == vid.upload_date * SecondsPerDay
          older == IF date < oldest THEN date ELSE oldest
      IN  IF vid.upload_date = BadDate
          THEN [ok |-> FALSE, oldest |-> oldest, items |-> items]
          ELSE IF TooRecent(t, date, delay_days)
          THEN FeedLoop(Tail(vids), t, delay_days, older, items)
          ELSE FeedLoop(Tail(vids), t, delay_days, older,
                        Append(items, [guid |-> vid.id, pub_date |-> date]))

\* (width as f32 / height as f32 * 100.0).abs() as u32: the cast truncates,
\* saturates at u32::MAX for the infinity of x/0, and gives 0 for the NaN of 0/0
Ratio100(width, height) ==
    IF height = 0 THEN (IF width = 0 THEN ToU32(0) ELSE U32Max)
    ELSE ToU32((100 * width) \div height)

\* 100 - (...) as u32: an underflow panics in a build with overflow checks and
\* wraps in one without
ThumbKey(thumb, profile) ==
    LET x == Ratio100(thumb.width, thumb.height)
    IN  [panic |-> Lt32(ToU32(100), x) /\ profile = "debug",
         key |-> WrappingSub(ToU32(100), x)]

\* squarest_thumbnail: the index of the thumbnail min_by_key picks (the first
\* of those with the least key), 0 for none
SquarestThumbnail(thumbnails, profile) ==
    LET cand == {i \in 1..Len(thumbnails) :
                    IsSome(thumbnails[i].width) /\ IsSome(thumbnails[i].height)}
        key(i) == ThumbKey(thumbnails[i], profile).key
    IN  IF \E i \in cand : ThumbKey(thumbnails[i], profile).panic
        THEN [panic |-> TRUE, pick |-> 0]
        ELSE IF cand = {} THEN [panic |-> FALSE, pick |-> 0]
        ELSE [panic |-> FALSE,
              pick |-> CHOOSE i \in cand :
                          \A j \in cand : \/ Lt32(key(i), key(j))
                                           \/ (key(i) = key(j) /\ i <= j)]

NoFeed(err, f) ==
    [ok |-> FALSE, err |-> err, fs |-> f, items |-> <<>>, pub_date |-> 0, image |-> 0]

\* get_feed after its loop returned l and squarest_thumbnail i
BuildFeed(f, l, i) ==
    IF ~l.ok THEN NoFeed("Other", f)
    ELSE IF i.panic THEN NoFeed("panic", f)
    ELSE [ok |-> TRUE, err |-> "", fs |-> f, items |-> l.items,
          pub_date |-> l.oldest, image |-> i.pick]

\* get_feed after get_channel_videos returned v
FeedOfVideos(t, in, channel, v) ==
    IF ~v.ok THEN NoFeed("YoutubeError", v.fs)
    ELSE BuildFeed(v.fs, FeedLoop(v.vids, t, in.delay_days, t, <<>>),
                   SquarestThumbnail(channel.thumbnails, in.profile))

\* get_feed after get_channel_info returned c
FeedOfChannel(f, t, in, c) ==
    IF ~c.ok THEN NoFeed(PodcastErr(c.err), f)
    ELSE FeedOfVideos(t, in, c.channel,
                      GetChannelVideosRes(f, t, c.channel, in.o3, in.listing,
                                          in.failing))

\* PodcastProxy::get_feed
GetFeedRes(f, t, in) ==
    FeedOfChannel(f, t, in, GetChannelInfoRes(in.o1, in.o2, in.info))

GetFeed ==
    /\ output = <<>>
    /\ \E r \in {GetFeedRes(fs, now, input)} :
          /\ fs' = r.fs
          /\ output' = [ok |-> r.ok, err |-> r.err, items |-> r.items,
                        pub_date |-> r.pub_date, image |-> r.image]
    /\ UNCHANGED <<now, ticks, last, input, procs>>

RunOk == [status |-> "ok", stderr |-> {}]

Channel(thumbnails) ==
    [channel |-> <<"c">>, thumbnails |-> thumbnails, videos_url |-> "", json |-> TRUE]

Thumbnail(width, height) == [width |-> width, height |-> height]

\* the listings: up to MaxVideos lines, each a video uploaded on one of the
\* days 0..MaxDay or with a date that does not parse, numbered in order
Listings ==
    UNION {{[i \in 1..n |-> Video(i, d[i])] : d \in [1..n -> {BadDate} \cup 0..MaxDay]}
              : n \in 0..MaxVideos}

\* the request is made on day MaxDay - 1, at midnight or at noon
Nows == {(MaxDay - 1) * SecondsPerDay, (MaxDay - 1) * SecondsPerDay + 43200}

InitFeed ==
    /\ fs = (Root :> Dir)
    /\ now \in Nows
    /\ ticks = 0
    /\ last = NoResult
    /\ input \in [o1 : {RunOk}, o2 : {RunOk}, o3 : {RunOk},
                   info : {Channel(<<Thumbnail(1, 1)>>)},
                   listing : Listings, delay_days : 0..MaxDelay,
                   profile : {"release"}, failing : {{}}]
    /\ output = <<>>
    /\ procs = <<>>

NextFeed == GetFeed

SpecFeed == InitFeed /\ [][NextFeed]_vars

Dims == {None} \cup 0..MaxDim

ThumbLists ==
    UNION {[1..n -> [width : Dims, height : Dims]] : n \in 0..MaxThumbs}

InitThumb ==
    /\ fs = (Root :> Dir)
    /\ now = MaxDay * SecondsPerDay
    /\ ticks = 0
    /\ last = NoResult
    /\ input \in [o1 : {RunOk}, o2 : {RunOk}, o3 : {RunOk},
                   info : {Channel(t) : t \in ThumbLists},
                   listing : {<<Video(1, 0)>>}, delay_days : {0},
                   profile : {"debug", "release"}, failing : {{}}]
    /\ output = <<>>
    /\ procs = <<>>

SpecThumb == InitThumb /\ [][NextFeed]_vars

------------------------------------------------------------------------------
(* Claims about the feed *)

Built == output # <<>>

\* the age of a video, in seconds, and whether it has been out delay_days days
Age(v) == now - v.upload_date * SecondsPerDay
Survives(v) == Age(v) >= input.delay_days * SecondsPerDay
Survivors == SelectSeq(input.listing, Survives)

AllDatesParse == \A i \in 1..Len(input.listing) : input.listing[i].upload_date # BadDate

\* C8: the feed has one item for each video whose age is at least delay_days,
\* in the order of the list, and none for a younger video; when every date
\* parses the build succeeds, also with every video excluded.
C8_FeedItemsAreDelayedVideos ==
    Built =>
        /\ AllDatesParse => output.ok
        /\ output.ok =>
              output.items = [i \in 1..Len(Survivors) |->
                                 [guid |-> Survivors[i].id,
                                  pub_date |-> Survivors[i].upload_date * SecondsPerDay]]

\* a feed was built that holds some of the videos and leaves some out
C8_Witness ==
    /\ Built /\ output.ok
    /\ Len(output.items) > 0
    /\ Len(output.items) < Len(input.listing)

MinDate(vids) ==
    CHOOSE d \in {vids[i].upload_date * SecondsPerDay : i \in 1..Len(vids)} :
        \A i \in 1..Len(vids) : d <= vids[i].upload_date * SecondsPerDay

\* C9: the feed's publication date is the least upload date of the videos
\* that survive the delay filter, and is what it would be had the excluded
\* videos not been in the list.
C9_PubDateIsOldestSurvivor ==
    (Built /\ output.ok) =>
        /\ Survivors # <<>> => output.pub_date = MinDate(Survivors)
        /\ output.pub_date = FeedLoop(Survivors, now, input.delay_days, now, <<>>).oldest

Known(thumb) ==
    /\ IsSome(thumb.width) /\ IsSome(thumb.height)
    /\ thumb.width # 0 /\ thumb.height # 0

AllKnown(thumbs) == thumbs # <<>> /\ \A i \in 1..Len(thumbs) : Known(thumbs[i])

Abs(x) == IF x < 0 THEN -x ELSE x

\* |100 - 100 a.width/a.height| < |100 - 100 b.width/b.height|
CloserToSquare(a, b) ==
    Abs(a.height - a.width) * b.height < Abs(b.height - b.width) * a.height

\* the first of the thumbnails closest to square
Squarest(thumbs) ==
    CHOOSE i \in 1..Len(thumbs) :
        /\ \A j \in 1..Len(thumbs) : ~CloserToSquare(thumbs[j], thumbs[i])
        /\ \A j \in 1..(i - 1) : CloserToSquare(thumbs[i], thumbs[j])

\* C10: for thumbnails of known nonzero width and height the feed's image is
\* the first of those closest to square, wide or tall, and computing the
\* distance neither overflows nor underflows.
C10_SquarestThumbnailChosen ==
    (Built /\ AllKnown(input.info.thumbnails)) =>
        /\ output.err # "panic"
        /\ output.ok => output.image = Squarest(input.info.thumbnails)

------------------------------------------------------------------------------
(* Concurrent requests: get_video called by several requests at once, each
   advancing from one await to the next *)

Procs == 1..NumProcs

Request(id) == [pc |-> "mkdir", id |-> id, dirs |-> <<>>, ret |-> NoNode]

out_path(p) == PathOf(MediaKey(procs[p].id), ExtMp4)

InitConc ==
    /\ fs = (Root :> Dir)
    /\ now = 0
    /\ ticks = 0
    /\ last = NoResult
    /\ input = <<>>
    /\ output = <<>>
    /\ procs \in [Procs -> {Request(id) : id \in VideoIds}]

Goto(p, pc) == procs' = [procs EXCEPT ![p].pc = pc]

\* get_path: create_dir_all for the leading key element
ConcMkDir(p) ==
    /\ procs[p].pc = "mkdir"
    /\ \E d \in {MkDirs(fs, Root, <<SegMedia>>)} :
          /\ fs' = d.fs
          /\ Goto(p, IF d.ok THEN "touch" ELSE "failed")
    /\ UNCHANGED <<now, ticks, last, input, output>>

\* get_path: open for append, or create
ConcTouch(p) ==
    /\ procs[p].pc = "touch"
    /\ \E o \in {Touch(fs, out_path(p), now)} :
          /\ fs' = o.fs
          /\ procs' = [procs EXCEPT ![p].pc = IF o.ok THEN "clean" ELSE "failed",
                                    ![p].dirs = <<Root>>]
    /\ UNCHANGED <<now, ticks, last, input, output>>

\* get_path: one turn of the loop of clean; the request goes on to the test
\* of get_video when the stack is empty
ConcCleanDir(p) ==
    /\ procs[p].pc = "clean"
    /\ \E s \in {CleanDir(fs, procs[p].dirs, now, {})} :
          /\ fs' = s.fs
          /\ procs' = [procs EXCEPT ![p].dirs = s.dirs,
                                    ![p].pc = IF ~s.ok THEN "failed"
                                              ELSE IF s.dirs = <<>> THEN "check"
                                              ELSE "clean"]
    /\ UNCHANGED <<now, ticks, last, input, output>>

\* get_video: out_path.exists() && metadata(out_path).len() == 0
ConcCheck(p) ==
    /\ procs[p].pc = "check"
    /\ Goto(p, IF ZeroLength(fs, out_path(p)) THEN "remove" ELSE "exists")
    /\ UNCHANGED <<fs, now, ticks, last, input, output>>

\* get_video: remove_file(out_path)?
ConcRemove(p) ==
    /\ procs[p].pc = "remove"
    /\ IF IsFile(fs, out_path(p))
       THEN fs' = Without(fs, {out_path(p)}) /\ Goto(p, "exists")
       ELSE fs' = fs /\ Goto(p, "failed")
    /\ UNCHANGED <<now, ticks, last, input, output>>

\* get_video: !out_path.exists(); the request returns out_path when it exists
ConcExists(p) ==
    /\ procs[p].pc = "exists"
    /\ procs' = [procs EXCEPT
                    ![p].pc = IF Exists(fs, out_path(p)) THEN "done" ELSE "download",
                    ![p].ret = NodeAt(fs, out_path(p))]
    /\ UNCHANGED <<fs, now, ticks, last, input, output>>

\* get_video: download_video has run; yt-dlp exits 0, having created the
\* directories of its output path that were missing, and the request returns
ConcDownload(p) ==
    /\ procs[p].pc = "download"
    /\ \E d \in {DownloadRes(CreateDirAll(fs, Parent(out_path(p))).fs, now,
                              out_path(p), RunOk)} :
          /\ fs' = d.fs
          /\ procs' = [procs EXCEPT ![p].pc = "done",
                                    ![p].ret = NodeAt(d.fs, out_path(p))]
    /\ UNCHANGED <<now, ticks, last, input, output>>

NextConc ==
    \E p \in Procs :
        \/ ConcMkDir(p)
        \/ ConcTouch(p)
        \/ ConcCleanDir(p)
        \/ ConcCheck(p)
        \/ ConcRemove(p)
        \/ ConcExists(p)
        \/ ConcDownload(p)

SpecConc == InitConc /\ [][NextConc]_vars

\* C4: whatever the interleaving, no request fails, and a request that
\* returns a media path returns one that holds a non-empty file when it
\* returns.
C4_InterleavingIsBenign ==
    \A p \in DOMAIN procs :
        /\ procs[p].pc # "failed"
        /\ procs[p].pc = "done" =>
              (procs[p].ret.kind = "file" /\ procs[p].ret.data # <<>>)

\* C11: the feed's image is never a thumbnail whose width or height is absent
\* or zero, and a channel none of whose thumbnails has both known and nonzero
\* gets a feed without image.
C11_ImageHasKnownNonzeroSize ==
    (Built /\ output.ok) =>
        /\ output.image # 0 => Known(input.info.thumbnails[output.image])
        /\ (\A i \in 1..Len(input.info.thumbnails) : ~Known(input.info.thumbnails[i]))
              => output.image = 0

------------------------------------------------------------------------------
(* The routes: one request for a feed or for a video, answered with a status *)

\* a directory an earlier sweep has left without entries
StaleDir(route) == IF route = "feed" THEN <<EncSeg(SegMedia)>> ELSE <<EncSeg(SegPlaylist)>>

\* the cache a request finds and the removals the operating system refuses
\* while it runs: none, that of the stale directory, or that of the video file
Caches(route) ==
    {[fs |-> (Root :> Dir), failing |-> {}],
     [fs |-> (Root :> Dir) @@ (StaleDir(route) :> Dir), failing |-> {}],
     [fs |-> (Root :> Dir) @@ (StaleDir(route) :> Dir), failing |-> {StaleDir(route)}]}
    \cup (IF route = "feed" THEN {}
          ELSE {[fs |-> (Root :> Dir),
                 failing |-> {PathOf(MediaKey(id), ExtMp4)}] : id \in VideoIds})

BadJson == [channel |-> <<"c">>, thumbnails |-> <<>>, videos_url |-> "", json |-> FALSE]

FeedRequests ==
    [route : {"feed"}, allowed : BOOLEAN, o1 : Outcomes, o2 : Outcomes, o3 : Outcomes,
     od : {RunOk}, info : {Channel(<<Thumbnail(1, 1)>>), BadJson},
     listing : {<<Video(1, 0)>>, <<Video(1, BadDate)>>, <<Garbage>>},
     delay_days : {0}, profile : {"release"}, failing : {{}}, id : VideoIds]

MediaRequests ==
    [route : {"media"}, allowed : {TRUE}, o1 : {RunOk}, o2 : {RunOk}, o3 : {RunOk},
     od : Outcomes, info : {BadJson}, listing : {<<>>},
     delay_days : {0}, profile : {"release"}, failing : {{}}, id : VideoIds]

InitReq ==
    /\ now = 0
    /\ ticks = 0
    /\ last = NoResult
    /\ output = <<>>
    /\ procs = <<>>
    /\ \E r \in FeedRequests \cup MediaRequests :
          \E c \in Caches(r.route) :
              /\ fs = c.fs
              /\ input = [r EXCEPT !.failing = c.failing]

\* the match of the route get_feed on the result of PodcastProxy::get_feed
FeedStatus(r) == IF r.ok THEN 200 ELSE IF r.err = "NotFound" THEN 404 ELSE 500

\* the map_err of the route get_media, then NamedFile::open on the path
MediaStatus(r) ==
    IF ~r.ok THEN (IF r.err = "NotFound" THEN 404 ELSE 500)
    ELSE IF IsFile(r.fs, r.path) THEN 200 ELSE 500

NoLookup == [ok |-> FALSE, err |-> "", calls |-> 0, channel |-> BadJson]

\* what the request came to: lookup is what get_channel_info returned (calls 0
\* when it was not called), yterr the YtDlError of download_video
Answer(status, err, lookup, dcalls, yterr) ==
    [status |-> status, err |-> err, lookup |-> lookup, dcalls |-> dcalls,
     yterr |-> yterr]

\* the route get_feed for a channel that is not on the whitelist
RouteFeedRefused ==
    /\ output = <<>>
    /\ input.route = "feed" /\ ~input.allowed
    /\ output' = Answer(404, "", NoLookup, 0, "")
    /\ UNCHANGED <<fs, now, ticks, last, input, procs>>

\* the route get_feed for a channel on the whitelist
RouteFeed ==
    /\ output = <<>>
    /\ input.route = "feed" /\ input.allowed
    /\ \E c \in {GetChannelInfoRes(input.o1, input.o2, input.info)} :
          \E r \in {FeedOfChannel(fs, now, input, c)} :
              /\ fs' = r.fs
              /\ output' = Answer(FeedStatus(r), r.err, c, 0, "")
    /\ UNCHANGED <<now, ticks, last, input, procs>>

\* the route get_media
RouteMedia ==
    /\ output = <<>>
    /\ input.route = "media"
    /\ \E r \in {GetVideoRes(fs, now, input.id, input.od, input.failing)} :
          /\ fs' = r.fs
          /\ output' = Answer(MediaStatus(r), r.err, NoLookup, r.calls,
                              IF r.calls = 1
                              THEN DownloadRes(fs, now, r.path, input.od).err
                              ELSE "")
    /\ UNCHANGED <<now, ticks, last, input, procs>>

NextReq == RouteFeedRefused \/ RouteFeed \/ RouteMedia

SpecReq == InitReq /\ [][NextReq]_vars

------------------------------------------------------------------------------
(* Claims about the routes *)

\* what a run of the tool that did outcome comes to for a caller that looks
\* for marker in its stderr; unstarted is what a binary that is there but
\* cannot be started comes to
ClassOf(outcome, marker, unstarted) ==
    CASE outcome.status = "ok" -> ""
      [] outcome.status = "nobinary" -> "YtDlpNotFound"
      [] outcome.status = "noexec" -> unstarted
      [] outcome.status = "fail" /\ marker \in outcome.stderr -> "ItemNotFound"
      [] OTHER -> "YtDlpOutputError"

\* the outcome of the last run get_channel_info made
LastLookup == IF output.lookup.calls = 2 THEN input.o2 ELSE input.o1

Classified(unstarted) ==
    Built =>
        /\ output.dcalls = 1 =>
              output.yterr = ClassOf(input.od, "Video unavailable", unstarted)
        /\ output.lookup.calls >= 1 =>
              IF ClassOf(LastLookup, "HTTPError 404", unstarted) = ""
              THEN output.lookup.ok = input.info.json
              ELSE /\ ~output.lookup.ok
                   /\ output.lookup.err = ClassOf(LastLookup, "HTTPError 404", unstarted)

------------------------------------------------------------------------------
(* Further claims about the sequential system *)

EmptyKeyRefused ==
    /\ ~last'.ok
    /\ last'.err = "empty key"
    /\ fs' = fs

\* C13: get_path with an empty key fails with the "empty key" error and
\* leaves the cache tree as it was: no directory or file is created and no
\* sweep runs.
C13_EmptyKeyFailsFirst ==
    [][(IsStep("get_path") /\ last'.key = <<>>) => EmptyKeyRefused]_vars

\* get_path with an empty key has returned while the cache holds a file a
\* sweep would have removed
C13_Witness ==
    /\ last.op = "get_path" /\ last.key = <<>>
    /\ \E p \in FilePaths : Older(fs, p, now)

------------------------------------------------------------------------------
(* Further claims about the routes *)

LookupClass(outcome) == ClassOf(outcome, "HTTPError 404", "Other")

\* the lookup found the channel under neither URL
NotFoundUpstream ==
    LookupClass(input.o1) = "ItemNotFound" /\ LookupClass(input.o2) = "ItemNotFound"

LookupSucceeds ==
    \/ LookupClass(input.o1) = ""
    \/ LookupClass(input.o1) = "ItemNotFound" /\ LookupClass(input.o2) = ""

\* the status the feed request is to end in
FeedStatusClaimed ==
    IF ~input.allowed \/ NotFoundUpstream THEN 404
    ELSE IF /\ LookupSucceeds
            /\ input.info.json
            /\ input.failing = {}
            /\ input.o3.status = "ok"
            /\ \A i \in 1..Len(input.listing) :
                  input.listing[i].json /\ input.listing[i].upload_date # BadDate
    THEN 200
    ELSE 500

\* the status the media request is to end in
MediaStatusClaimed ==
    IF input.failing # {} THEN 500
    ELSE IF ClassOf(input.od, "Video unavailable", "Other") = "ItemNotFound" THEN 404
    ELSE IF input.od.status = "ok" THEN 200
    ELSE 500

\* C14: a feed request ends in 404 exactly when the channel is not on the
\* allow-list or the lookup is classified not-found under both URLs, and in 500
\* for every other failure; a media request ends in 404 exactly when the
\* download is classified not-found and in 500 for every other failure.
C14_RequestStatus ==
    Built =>
        output.status = IF input.route = "feed" THEN FeedStatusClaimed
                        ELSE MediaStatusClaimed

\* a feed request for an allowed channel ended in 404 after two lookups
C14_Witness ==
    /\ Built
    /\ input.route = "feed" /\ input.allowed
    /\ output.lookup.calls = 2
    /\ output.status = 404

Refreshed(p) == IsFile(fs', p) /\ fs'[p].mtime = now

\* C15: a successful get_path on a key whose file exists sets the file's
\* modification time to now, and the file is still there when it returns,
\* however old it was.
C15_GetPathRefreshesMtime ==
    [][(IsStep("get_path") /\ last'.ok /\ IsFile(fs, last'.path))
          => Refreshed(last'.path)]_vars

\* C16: a get_path whose sweep was refused the removal of an expired file or
\* of an empty directory still succeeds.
C16_DeletionFailureIsSwallowed ==
    (last.op = "get_path" /\ last.key # <<>> /\ last.delfail) => last.ok

\* a get_path with a key of one segment, none of whose removals was refused
SingleSegmentGetPath ==
    last.op = "get_path" /\ Len(last.key) = 1 /\ ~last.delfail

\* C21: after any sequence of get_path and clean calls, a clean() of a cache
\* without entries included, the cache root is still a directory, and so a
\* get_path with a key of one segment still creates its file.
C21_RootDirectorySurvives ==
    /\ IsDir(fs, Root)
    /\ SingleSegmentGetPath => last.ok

\* C17: get_channel_info runs the tool on the user URL exactly when the run on
\* the channel URL failed and was classified not-found; any other failure of
\* the first run is returned at once; a call makes at most two runs, and the
\* videos URL of the channel returned is that of the convention that succeeded.
C17_SecondUrlOnlyAfterNotFound ==
    (Built /\ output.lookup.calls >= 1) =>
        /\ output.lookup.calls \in {1, 2}
        /\ output.lookup.calls = 2 <=> LookupClass(input.o1) = "ItemNotFound"
        /\ LookupClass(input.o1) \notin {"", "ItemNotFound"} =>
              (~output.lookup.ok /\ output.lookup.err = LookupClass(input.o1))
        /\ output.lookup.ok =>
              output.lookup.channel.videos_url =
                  IF LookupClass(input.o1) = "" THEN "c" ELSE "user"

\* a lookup that found the channel under the user URL
C17_Witness ==
    /\ Built
    /\ output.lookup.ok
    /\ output.lookup.calls = 2
    /\ output.lookup.channel.videos_url = "user"

------------------------------------------------------------------------------
(* The playlist cache: get_channel_videos called again and again as time
   passes *)

ChannelNames == {<<"c">>}

PlaylistKey(channel) == <<SegPlaylist, channel>>

\* what the listing run prints: nothing, one video, another video, or a line
\* that is not the JSON of a video
ListOutputs == {<<>>, <<Video(1, 0)>>, <<Video(2, 0)>>, <<Garbage>>}

\* get_channel_videos for the channel named channel: g is what its get_path
\* returned, v what it returned itself
GetChannelVideos(channel, outcome, listing, failing) ==
    \E g \in {GetPathRes(fs, now, PlaylistKey(channel), NoExt, failing)} :
        \E v \in {ReadOrFetch(g, now, RunRes(outcome), listing)} :
            /\ fs' = v.fs
            /\ last' = [op |-> "get_channel_videos", key |-> PlaylistKey(channel),
                        ext |-> NoExt, ok |-> v.ok, err |-> v.err, path |-> g.path,
                        calls |-> v.calls, delfail |-> g.delfail,
                        removed |-> g.removed, pre |-> NodeAt(fs, g.path),
                        vids |-> v.vids, outcome |-> outcome, listing |-> listing]
            /\ UNCHANGED <<now, ticks, aux>>

NextList ==
    \/ \E d \in {1, cache_time} : Tick(d)
    \/ \E channel \in ChannelNames, outcome \in Outcomes, listing \in ListOutputs :
          \E failing \in FaultSets(fs, now, PathOf(PlaylistKey(channel), NoExt)) :
              GetChannelVideos(channel, outcome, listing, failing)

SpecList == Init /\ [][NextList]_vars

Parses(lines) == \A i \in 1..Len(lines) : lines[i].json

\* the call found a file with content that is not older than the TTL
FoundFresh == last.pre.kind = "file" /\ last.pre.data # <<>>
              /\ now - last.pre.mtime <= cache_time

\* C18: get_channel_videos runs no tool and returns the records of the cache
\* file when the file has content; when the file is empty, cold or because
\* its content expired, it runs the tool once, writes the output to the
\* file and returns the records of the output.
C18_ListingCachedOrFetchedOnce ==
    (/\ last.op = "get_channel_videos"
     /\ ~last.delfail
     /\ last.outcome.status = "ok" /\ Parses(last.listing)) =>
        IF FoundFresh
        THEN Parses(last.pre.data) =>
                (last.ok /\ last.calls = 0 /\ last.vids = last.pre.data)
        ELSE /\ last.ok /\ last.calls = 1 /\ last.vids = last.listing
             /\ IsFile(fs, last.path) /\ fs[last.path].data = last.listing

------------------------------------------------------------------------------
(* Requests that keep arriving while time passes without end.  The clock is
   kept relative to the present: now stays 0 and a pass of d seconds lowers the
   modification time of every file by d.  An age beyond cache_time + 1 is kept
   as cache_time + 1, since the sweep tells no two such ages apart. *)

\* requests arrive more often than once per TTL
Pause == cache_time \div 2 + 1

Aged(node, d) ==
    IF node.kind # "file" THEN node
    ELSE [node EXCEPT !.mtime = IF @ - d < 0 - (cache_time + 1)
                                THEN 0 - (cache_time + 1) ELSE @ - d]

PassTime(d) ==
    /\ fs' = [p \in DOMAIN fs |-> Aged(fs[p], d)]
    /\ UNCHANGED <<now, ticks, last, aux>>

\* the tool works or fails, and prints a listing or nothing
LiveOutcomes == {RunOk, [status |-> "fail", stderr |-> {}]}
LiveOutputs == {<<>>, <<Video(1, 0)>>}

ListRequest(channel) ==
    \E outcome \in LiveOutcomes, listing \in LiveOutputs :
        GetChannelVideos(channel, outcome, listing, {})

MediaRequest(id) == \E outcome \in LiveOutcomes : GetVideo(id, outcome, {})

NextLive ==
    \/ PassTime(Pause)
    \/ \E channel \in ChannelNames : ListRequest(channel)
    \/ \E id \in VideoIds : MediaRequest(id)

\* time passes, and requests for every channel and video keep arriving
FairLive ==
    /\ WF_vars(PassTime(Pause))
    /\ \A channel \in ChannelNames : WF_vars(ListRequest(channel))
    /\ \A id \in VideoIds : WF_vars(MediaRequest(id))

SpecLive == Init /\ [][NextLive]_vars /\ FairLive

HasContent(p) == IsFile(fs, p) /\ fs[p].data # <<>>

\* the sweep of the last request deleted the file at p
Swept(p) == p \in last.removed

\* the last request was for the key of p and ran the tool
Fetched(p) == last.path = p /\ last.calls = 1

Entries ==
    {PathOf(PlaylistKey(channel), NoExt) : channel \in ChannelNames}
    \cup {PathOf(MediaKey(id), ExtMp4) : id \in VideoIds}

C20_NoContentCachedOnError ==
    (last.op = "get_channel_videos" /\ ~last.ok) => ~HasContent(last.path)

====
